---------------------------- MODULE Spec2Model ----------------------------
(***************************************************************************)
(* Model of the numeric functions of the NSE-2022 teaching notebooks:      *)
(*   - add_residual / residual            (lectures 3 and 6)               *)
(*   - simulate_bucket_storage            (lecture 6)                      *)
(*   - fcr_power                          (NB2 solution)                   *)
(*   - unit_efficiency, power_converter_uniform, power_converter_cascade,  *)
(*     plot_efficiency_curve              (NB2 solution)                   *)
(*   - build_model, recover_results       (NB2 solution, peak shaving)     *)
(*   - calc_cycle_depth                   (NB4 assignment)                 *)
(*                                                                         *)
(* Python floats are modelled as exact rationals <<n, d>> in lowest terms  *)
(* with d > 0.  The pair <<0, 0>> is the outcome of a division by zero     *)
(* (Python raises ZeroDivisionError); it propagates through arithmetic.    *)
(* A pandas table is modelled column-wise: a function from column names    *)
(* to equally long sequences of values, rows addressed by position         *)
(* (a unique index).                                                       *)
(***************************************************************************)
EXTENDS Integers, Sequences, FiniteSets, TLC

VARIABLES
    pc,          \* position of the notebook cell being executed
    df,          \* the table the functions work on (the caller's object)
    df_in,       \* the caller's table as it was when simulate_bucket_storage was called
    capacity,    \* simulate_bucket_storage: argument
    max_p_stor,  \* simulate_bucket_storage: argument
    eta_in,      \* simulate_bucket_storage: argument
    eta_out,     \* simulate_bucket_storage: argument
    soe_old,     \* simulate_bucket_storage: local
    p_stor,      \* simulate_bucket_storage: local
    i,           \* simulate_bucket_storage: position of the iterrows loop
    result,      \* simulate_bucket_storage: the returned table
    f,           \* fcr_power: the frequency sample [Hz]
    Pn,          \* fcr_power: nominal power [MW]
    Pg,          \* fcr_power: the returned power
    power,       \* power converters: the AC power setpoint
    power_max,   \* power converters: total installed nominal power
    units,       \* power converters: number of units
    uniform,     \* power_converter_uniform: its locals at return
    cascade,     \* power_converter_cascade: its locals at return
    converters,  \* plot_efficiency_curve: the converters still to be plotted
    power_range, \* plot_efficiency_curve: local
    power_dc,    \* plot_efficiency_curve: local
    eff_curve,   \* plot_efficiency_curve: its local eff
    storage_params, \* build_model: argument
    profile,     \* build_model / recover_results: the load profile table
    model        \* the pyomo model's variables as the solver left them

vars == <<pc, df, df_in, capacity, max_p_stor, eta_in, eta_out, soe_old, p_stor, i, result,
          f, Pn, Pg, power, power_max, units, uniform, cascade,
          converters, power_range, power_dc, eff_curve,
          storage_params, profile, model>>

tableVars == <<df>>

lpVars == <<storage_params, profile, model>>

fcrVars == <<f, Pn, Pg>>

convVars == <<power, power_max, units, uniform, cascade>>

plotVars == <<converters, power_range, power_dc, eff_curve>>

bucketVars == <<df_in, capacity, max_p_stor, eta_in, eta_out, soe_old, p_stor, i, result>>

-----------------------------------------------------------------------------
(* Bounds of the model. *)

\* rows of a table
MaxRows == 2
\* load, solar and wind values are drawn from 0..MaxVal
MaxVal == 1
\* rows of the residual series given to simulate_bucket_storage
MaxSteps == 3
\* residual values are drawn from -MaxRes..MaxRes
MaxRes == 1
\* capacity is drawn from 0..MaxCap
MaxCap == 3
\* max_p_stor is drawn from 0..MaxP
MaxP == 2
\* frequency samples are fn + k mHz for k in -MaxDev..MaxDev
MaxDev == 220
\* Pn is drawn from 1..MaxPn
MaxPn == 2
\* AC setpoints are n / GridDen for n in -MaxPowerNum..MaxPowerNum
GridDen == 12
MaxPowerNum == 30
\* power_max is drawn from 1..MaxPowerMax
MaxPowerMax == 2
\* units is drawn from 1..MaxUnits (the notebook uses 8)
MaxUnits == 8
\* samples of the efficiency curve (the notebook uses num=1000)
NumSamples == 9
\* time steps of the load profile given to build_model
MaxT == 2
\* loads of the profile are drawn from 0..MaxLoad
MaxLoad == 1
\* rows of the table given to calc_cycle_depth
MaxSocLen == 4
\* the soc column holds the values k / SocSteps, k in 0..SocSteps
SocSteps == 2

-----------------------------------------------------------------------------
(* Exact rational arithmetic standing for Python's float arithmetic. *)

Abs(n) == IF n < 0 THEN -n ELSE n

RECURSIVE GCD(_, _)
GCD(a, b) == IF b = 0 THEN a ELSE GCD(b, a % b)

\* the division-by-zero outcome
Undef == <<0, 0>>

IsUndef(a) == a[2] = 0

\* n/d in lowest terms with a positive denominator; d = 0 gives Undef
Norm(n, d) ==
    IF d = 0 THEN Undef
    ELSE LET g == GCD(Abs(n), Abs(d))
             s == IF d < 0 THEN -1 ELSE 1
         IN  <<(s * n) \div g, (s * d) \div g>>

R(n) == <<n, 1>>

\* sums over the least common denominator, products and quotients reduced
\* crosswise first, so that no intermediate number is larger than needed
RAdd(a, b) ==
    IF IsUndef(a) \/ IsUndef(b) THEN Undef
    ELSE LET g == GCD(a[2], b[2])
         IN  Norm(a[1] * (b[2] \div g) + b[1] * (a[2] \div g), (a[2] \div g) * b[2])

RNeg(a) == <<-a[1], a[2]>>

RSub(a, b) == RAdd(a, RNeg(b))

RMul(a, b) ==
    IF IsUndef(a) \/ IsUndef(b) THEN Undef
    ELSE LET g1 == GCD(Abs(a[1]), b[2])
             g2 == GCD(Abs(b[1]), a[2])
         IN  Norm((a[1] \div g1) * (b[1] \div g2), (a[2] \div g2) * (b[2] \div g1))

\* a / b; a zero divisor gives Undef
RDiv(a, b) ==
    IF IsUndef(a) \/ IsUndef(b) \/ b[1] = 0 THEN Undef
    ELSE RMul(a, IF b[1] < 0 THEN <<-b[2], -b[1]>> ELSE <<b[2], b[1]>>)

RAbs(a) == <<Abs(a[1]), a[2]>>

\* order of a/b and c/d (a, c >= 0 and b, d > 0) by their continued
\* fractions: -1, 0 or 1
RECURSIVE CmpPos(_, _, _, _)
CmpPos(a, b, c, d) ==
    LET q1 == a \div b
        q2 == c \div d
        r1 == a % b
        r2 == c % d
    IN  IF q1 # q2 THEN (IF q1 < q2 THEN -1 ELSE 1)
        ELSE IF r1 = 0 /\ r2 = 0 THEN 0
        ELSE IF r1 = 0 THEN -1
        ELSE IF r2 = 0 THEN 1
        ELSE CmpPos(d, r2, b, r1)

RCmp(a, b) ==
    IF a[1] < 0 /\ b[1] >= 0 THEN -1
    ELSE IF a[1] >= 0 /\ b[1] < 0 THEN 1
    ELSE IF a[1] < 0 THEN CmpPos(-b[1], b[2], -a[1], a[2])
    ELSE CmpPos(a[1], a[2], b[1], b[2])

\* comparisons (of defined values)
RLt(a, b) == RCmp(a, b) < 0
RLe(a, b) == RCmp(a, b) <= 0
RGt(a, b) == RLt(b, a)
RGe(a, b) == RLe(b, a)

\* Python's max(a, b) and min(a, b): the first argument unless the second is
\* strictly greater (smaller)
RMax(a, b) == IF RGt(b, a) THEN b ELSE a
RMin(a, b) == IF RLt(b, a) THEN b ELSE a

-----------------------------------------------------------------------------
(* Tables. *)

Columns(t) == DOMAIN t

\* number of rows of a table with a column c
NRows(t, c) == Len(t[c])

\* t[c] = col : adds the column, or replaces it, in place
SetColumn(t, c, col) ==
    [k \in Columns(t) \cup {c} |-> IF k = c THEN col ELSE t[k]]

\* t.loc[r, c] = v
SetCell(t, r, c, v) == [t EXCEPT ![c][r] = v]

RVals(lo, hi) == {R(n) : n \in lo..hi}

SeqsOf(S, n) == [1..n -> S]

-----------------------------------------------------------------------------
(* add_residual (lecture 3) and residual (lecture 6). *)

\* (variant: solar taken from the first row instead of the row's own)
ResidualColumnShifted(t) ==
    [r \in 1..NRows(t, "load") |->
        RSub(RSub(t["load"][r], t["solar"][1]), t["wind"][r])]

\* df["load"] - df["solar"] - df["wind"], row by row
ResidualColumn(t) ==
    [r \in 1..NRows(t, "load") |-> RSub(RSub(t["load"][r], t["solar"][r]), t["wind"][r])]

\* df["residual"] = ...
WithResidual(t) == SetColumn(t, "residual", ResidualColumn(t))

\* scales of scale_renewables and of the storage cells
Scales == {R(2), <<37, 10>>}

\* no simulate_bucket_storage call is in progress
BucketIdle ==
    /\ df_in = <<>>
    /\ capacity = R(0)
    /\ max_p_stor = R(0)
    /\ eta_in = R(1)
    /\ eta_out = R(1)
    /\ soe_old = R(0)
    /\ p_stor = R(0)
    /\ i = 0
    /\ result = <<>>

\* no fcr_power call has been made
FcrIdle ==
    /\ f = R(0)
    /\ Pn = R(0)
    /\ Pg = R(0)

\* no power converter call has been made
ConvIdle ==
    /\ power = R(0)
    /\ power_max = R(0)
    /\ units = 0
    /\ uniform = <<>>
    /\ cascade = <<>>

\* plot_efficiency_curve has not been called
PlotIdle ==
    /\ converters = <<>>
    /\ power_range = <<>>
    /\ power_dc = <<>>
    /\ eff_curve = <<>>

\* no optimization model has been built
LpIdle ==
    /\ storage_params = <<>>
    /\ profile = <<>>
    /\ model = <<>>

\* a loaded table with the columns load, solar, wind
InitResidual ==
    /\ pc = "loaded"
    /\ \E n \in 1..MaxRows :
         \E l \in SeqsOf(RVals(0, MaxVal), n), s \in SeqsOf(RVals(0, MaxVal), n),
            w \in SeqsOf(RVals(0, MaxVal), n) :
              df = [load |-> l, solar |-> s, wind |-> w]
    /\ BucketIdle
    /\ FcrIdle
    /\ ConvIdle
    /\ PlotIdle
    /\ LpIdle

\* df["solar"] *= scale ; df["wind"] *= scale
ScaleRenewables ==
    /\ pc = "loaded"
    /\ \E scale \in Scales :
         df' = [df EXCEPT !["solar"] = [r \in DOMAIN @ |-> RMul(@[r], scale)],
                          !["wind"]  = [r \in DOMAIN @ |-> RMul(@[r], scale)]]
    /\ pc' = "scaled"
    /\ UNCHANGED <<bucketVars, fcrVars, convVars, plotVars, lpVars>>

\* lecture 3: df_DE = add_residual(df_DE)
add_residual ==
    /\ pc = "loaded"
    /\ df' = WithResidual(df)
    /\ pc' = "residual_added"
    /\ UNCHANGED <<bucketVars, fcrVars, convVars, plotVars, lpVars>>

\* lecture 6: residual(df), on the loaded or on the scaled table
residual ==
    /\ pc \in {"loaded", "scaled"}
    /\ df' = WithResidual(df)
    /\ pc' = "residual_added"
    /\ UNCHANGED <<bucketVars, fcrVars, convVars, plotVars, lpVars>>

NextResidual == ScaleRenewables \/ add_residual \/ residual

SpecResidual == InitResidual /\ [][NextResidual]_vars

-----------------------------------------------------------------------------
\* C1: after add_residual(df) or residual(df) every row of df has
\* residual = load - solar - wind, from that row's own load, solar and wind
\* (stated as residual + solar + wind = load, row by row, same row count).
C1_ResidualIsLoadMinusRenewables ==
    pc = "residual_added" =>
        /\ "residual" \in Columns(df)
        /\ Len(df["residual"]) = Len(df["load"])
        /\ \A r \in 1..Len(df["load"]) :
             RAdd(RAdd(df["residual"][r], df["wind"][r]), df["solar"][r]) = df["load"][r]

\* a table with distinct rows and a negative residual, after residual(df)
C1_Witness ==
    /\ pc = "residual_added"
    /\ Len(df["load"]) >= 2
    /\ df["solar"][1] # df["solar"][2]
    /\ \E r \in 1..Len(df["load"]) : RLt(df["residual"][r], R(0))

-----------------------------------------------------------------------------
(* simulate_bucket_storage(df, capacity, max_p_stor, eta_in, eta_out). *)

\* charge / discharge efficiencies (the notebook passes 0.6, 0.6)
Etas == {<<3, 5>>, R(1)}

\* p_stor of one row: the discharge branch divides the residual by eta_out,
\* the charge branch limits the charge power
PStor(res, maxp, ein, eout) ==
    IF RGt(res, R(0))
    THEN RDiv(res, eout)
    ELSE RMax(RMul(res, ein), RNeg(maxp))

\* (variant: the energy level is not limited)
SoeNewUnclipped(soe, p, cap) == RSub(soe, RMul(p, R(1)))

\* soe_new: one hour of p_stor, then limited to the storage energy level
SoeNew(soe, p, cap) == RMin(RMax(RSub(soe, RMul(p, R(1))), R(0)), cap)

\* power_ac of one row
PowerAC(res, soe, soe_new, ein, eout) ==
    IF RGt(res, R(0))
    THEN RMul(RSub(soe_new, soe), eout)
    ELSE RDiv(RSub(soe_new, soe), ein)

\* (variant: the energy level is written into the residual column)
WriteRowOverResidual(t, r, soe, soe_new, ac) ==
    SetCell(SetCell(SetCell(t, r, "power_DC", RSub(soe_new, soe)),
                    r, "power_AC", ac),
            r, "residual", soe_new)

\* the three df.loc[i, ...] assignments of one loop iteration
WriteRow(t, r, soe, soe_new, ac) ==
    SetCell(SetCell(SetCell(t, r, "power_DC", RSub(soe_new, soe)),
                    r, "power_AC", ac),
            r, "energy", soe_new)

\* df["energy"] = 0 ; df["power_DC"] = 0 ; df["power_AC"] = 0
ZeroColumns(t) ==
    LET z == [r \in 1..NRows(t, "residual") |-> R(0)]
    IN  SetColumn(SetColumn(SetColumn(t, "energy", z), "power_DC", z), "power_AC", z)

\* a table with a residual column, and the arguments of the call
InitBucket ==
    /\ pc = "table"
    /\ \E n \in 0..MaxSteps : \E res \in SeqsOf(RVals(-MaxRes, MaxRes), n) :
         df = [residual |-> res]
    /\ df_in = <<>>
    /\ capacity \in RVals(0, MaxCap)
    /\ max_p_stor \in RVals(0, MaxP)
    /\ eta_in \in Etas
    /\ eta_out \in Etas
    /\ soe_old = R(0)
    /\ p_stor = R(0)
    /\ i = 0
    /\ result = <<>>
    /\ FcrIdle
    /\ ConvIdle
    /\ PlotIdle
    /\ LpIdle

\* the call, up to the first loop iteration; an empty table returns at once
BucketCall ==
    /\ pc = "table"
    /\ df_in' = df
    /\ df' = ZeroColumns(df)
    /\ soe_old' = RMul(capacity, <<1, 2>>)
    /\ p_stor' = R(0)
    /\ i' = 1
    /\ IF NRows(df, "residual") = 0
       THEN pc' = "returned" /\ result' = df'
       ELSE pc' = "loop" /\ result' = result
    /\ UNCHANGED <<capacity, max_p_stor, eta_in, eta_out, fcrVars, convVars, plotVars, lpVars>>

\* one iteration of "for i, row in df.iterrows()"; the last one returns df
BucketStep ==
    /\ pc = "loop"
    /\ i <= NRows(df, "residual")
    /\ LET res     == df["residual"][i]
           p       == PStor(res, max_p_stor, eta_in, eta_out)
           soe_new == SoeNew(soe_old, p, capacity)
           ac      == PowerAC(res, soe_old, soe_new, eta_in, eta_out)
       IN  /\ p_stor' = p
           /\ df' = WriteRow(df, i, soe_old, soe_new, ac)
           /\ soe_old' = soe_new
    /\ i' = i + 1
    /\ IF i = NRows(df, "residual")
       THEN pc' = "returned" /\ result' = df'
       ELSE pc' = "loop" /\ result' = result
    /\ UNCHANGED <<df_in, capacity, max_p_stor, eta_in, eta_out, fcrVars, convVars, plotVars, lpVars>>

NextBucket == BucketCall \/ BucketStep

SpecBucket == InitBucket /\ [][NextBucket]_vars

\* rows the loop has already written
Processed == IF pc = "table" THEN {} ELSE 1..(i - 1)

-----------------------------------------------------------------------------
\* C2: the stored energy written to the energy column lies in [0, capacity]
\* after every step, for any residual series and any capacity >= 0.
C2_EnergyWithinCapacity ==
    pc \in {"loop", "returned"} =>
        /\ RLe(R(0), soe_old) /\ RLe(soe_old, capacity)
        /\ \A r \in 1..NRows(df, "residual") :
             RLe(R(0), df["energy"][r]) /\ RLe(df["energy"][r], capacity)

\* a run that hit the upper limit while charging and the lower limit while
\* discharging
C2_Witness ==
    /\ pc = "returned"
    /\ RGt(capacity, R(0))
    /\ \E r1, r2 \in Processed :
         /\ df["energy"][r1] = capacity /\ RLt(df["residual"][r1], R(0))
         /\ df["energy"][r2] = R(0) /\ RGt(df["residual"][r2], R(0))

\* C3 (as claimed): at every step |power_DC| <= max_p_stor, charging and
\* discharging alike.
C3_PowerWithinLimit ==
    \A r \in Processed : RLe(RAbs(df["power_DC"][r]), max_p_stor)

\* C4 (as claimed): the call leaves the caller's table unchanged.
C4_ArgumentUnchanged ==
    pc = "returned" => df = df_in

\* C4 (amended): the call changes the caller's table in place; it adds the
\* columns energy, power_DC and power_AC, keeps every other column as it
\* was, and returns that same table.
C4_OnlyResultColumnsAdded ==
    pc \in {"loop", "returned"} =>
        /\ Columns(df) = Columns(df_in) \cup {"energy", "power_DC", "power_AC"}
        /\ \A c \in Columns(df_in) \ {"energy", "power_DC", "power_AC"} :
             df[c] = df_in[c]
        /\ pc = "returned" => result = df

\* a returned table with a non-zero energy level written
C4_Witness ==
    /\ pc = "returned"
    /\ \E r \in Processed : RGt(df["energy"][r], R(0))
    /\ df # df_in

-----------------------------------------------------------------------------
(* fcr_power(f, fn, Pn, S, fdb): the droop response of the FCR. *)

\* nominal frequency [Hz]
fn == R(50)

\* frequency dead-band [Hz]: 10.0e-3
fdb == <<1, 100>>

\* maximum frequency deviation [Hz]: 200.0e-3
delta_f_max == <<1, 5>>

\* the droop: S = -(-0.2 / 50) / (1 / 1)
S == RDiv(RNeg(RDiv(<<-1, 5>>, R(50))), RDiv(R(1), R(1)))

\* np.sign
Sign(a) == IF a[1] > 0 THEN R(1) ELSE IF a[1] < 0 THEN R(-1) ELSE R(0)

\* (variant: a deviation equal to the dead band still gives no response)
fcr_power_closed_deadband(freq, nominal, P, droop, deadband) ==
    LET delta_f == RSub(nominal, freq)
    IN  IF RLe(RAbs(delta_f), deadband)
        THEN R(0)
        ELSE LET p == RDiv(RMul(delta_f, P), RMul(nominal, droop))
             IN  RMul(Sign(p), RMin(RAbs(p), P))

\* (variant: the response is not limited to the nominal power)
fcr_power_unlimited(freq, nominal, P, droop, deadband) ==
    LET delta_f == RSub(nominal, freq)
    IN  IF RLt(RAbs(delta_f), deadband)
        THEN R(0)
        ELSE RDiv(RMul(delta_f, P), RMul(nominal, droop))

\* delta_f = fn - f ; dead band ; Pg = (delta_f * Pn) / (fn * S) ;
\* Pg = np.sign(Pg) * min(abs(Pg), Pn)
fcr_power(freq, nominal, P, droop, deadband) ==
    LET delta_f == RSub(nominal, freq)
    IN  IF RLt(RAbs(delta_f), deadband)
        THEN R(0)
        ELSE LET p == RDiv(RMul(delta_f, P), RMul(nominal, droop))
             IN  RMul(Sign(p), RMin(RAbs(p), P))

\* a frequency sample around the nominal frequency and a nominal power
InitFcr ==
    /\ pc = "sample"
    /\ \E k \in -MaxDev..MaxDev : f = RAdd(fn, Norm(k, 1000))
    /\ Pn \in RVals(1, MaxPn)
    /\ Pg = R(0)
    /\ df = <<>>
    /\ BucketIdle
    /\ ConvIdle
    /\ PlotIdle
    /\ LpIdle

\* one element of [fcr_power(f, fn, Pn, S, fdb) for f in ...]
FcrCall ==
    /\ pc = "sample"
    /\ Pg' = fcr_power(f, fn, Pn, S, fdb)
    /\ pc' = "fcr_done"
    /\ UNCHANGED <<f, Pn, tableVars, bucketVars, convVars, plotVars, lpVars>>

NextFcr == FcrCall

SpecFcr == InitFcr /\ [][NextFcr]_vars
-----------------------------------------------------------------------------
\* C5: fcr_power returns 0 for |fn - f| < fdb, and the proportional droop
\* response Pn * (fn - f) / (fn * S) for fdb <= |fn - f| <= 200 mHz
\* (S = 0.004, fn = 50 Hz, so fn * S = 0.2).
C5_DeadBandAndDroop ==
    pc = "fcr_done" =>
        LET dev == RAbs(RSub(fn, f))
        IN  /\ RLt(dev, <<1, 100>>) => Pg = R(0)
            /\ (RLe(<<1, 100>>, dev) /\ RLe(dev, <<1, 5>>)) =>
                   RMul(Pg, <<1, 5>>) = RMul(Pn, RSub(fn, f))

\* a response at exactly the dead band limit, which is proportional and not 0
C5_Witness ==
    /\ pc = "fcr_done"
    /\ RAbs(RSub(fn, f)) = <<1, 100>>
    /\ RLt(f, fn)
    /\ Pg = RMul(Pn, <<1, 20>>)

\* C6: |Pg| <= Pn for every frequency, and beyond 200 mHz of deviation the
\* result is exactly +Pn below the nominal frequency and -Pn above it.
C6_Saturation ==
    pc = "fcr_done" =>
        /\ RLe(RAbs(Pg), Pn)
        /\ RGt(RAbs(RSub(fn, f)), <<1, 5>>) =>
               /\ RLt(f, fn) => Pg = Pn
               /\ RGt(f, fn) => Pg = RNeg(Pn)

\* an over-frequency beyond 200 mHz answered with -Pn
C6_Witness ==
    /\ pc = "fcr_done"
    /\ RGt(RSub(f, fn), <<1, 5>>)
    /\ Pg = RNeg(Pn)

-----------------------------------------------------------------------------
(* unit_efficiency, power_converter_uniform, power_converter_cascade. *)

\* params = (0.02, 0.005)
k0 == <<1, 50>>
k2 == <<1, 200>>

\* (variant: the constant loss term k0 is left out)
unit_efficiency_without_k0(power_ratio) ==
    RDiv(power_ratio, RAdd(power_ratio, RMul(k2, RMul(power_ratio, power_ratio))))

\* (variant: the two fitting parameters are swapped)
unit_efficiency_swapped(power_ratio) ==
    RDiv(power_ratio,
         RAdd(RAdd(power_ratio, k2), RMul(k0, RMul(power_ratio, power_ratio))))

\* (power_ratio) / (power_ratio + k0 + k2 * (power_ratio ** 2))
unit_efficiency(power_ratio) ==
    RDiv(power_ratio,
         RAdd(RAdd(power_ratio, k0), RMul(k2, RMul(power_ratio, power_ratio))))

\* dc_power of both converters: discharge divides by the efficiency,
\* charge multiplies by it
DcPower(p, eff) == IF RGt(p, R(0)) THEN RDiv(p, eff) ELSE RMul(p, eff)

\* power_converter_uniform(power, power_max, units): its locals at return
power_converter_uniform(p, pmax, u) ==
    LET power_ratio == RDiv(RAbs(p), pmax)
        eff         == unit_efficiency(power_ratio)
    IN  [power_ratio |-> power_ratio, eff |-> eff, dc_power |-> DcPower(p, eff)]

\* (variant: int(x) + 1, which is one too many at exact multiples)
CeilByTruncation(x) == (x[1] \div x[2]) + 1

\* math.ceil of a rational
Ceil(x) == IF x[1] >= 0 THEN (x[1] + x[2] - 1) \div x[2] ELSE -((-x[1]) \div x[2])

\* power_converter_cascade(power, power_max, units): its locals at return;
\* a zero setpoint returns 0.0 before anything else is computed
power_converter_cascade(p, pmax, u) ==
    IF p = R(0)
    THEN [dc_power |-> R(0)]
    ELSE LET unit_power   == RDiv(pmax, R(u))
             active_units == Ceil(RDiv(RAbs(p), unit_power))
             power_ratio  == RDiv(RAbs(p), RMul(R(active_units), unit_power))
             eff          == unit_efficiency(power_ratio)
         IN  [unit_power |-> unit_power, active_units |-> active_units,
              power_ratio |-> power_ratio, eff |-> eff, dc_power |-> DcPower(p, eff)]

\* an AC setpoint and an installation
InitConv ==
    /\ pc = "setpoint"
    /\ \E n \in -MaxPowerNum..MaxPowerNum : power = Norm(n, GridDen)
    /\ power_max \in RVals(1, MaxPowerMax)
    /\ units \in 1..MaxUnits
    /\ uniform = <<>>
    /\ cascade = <<>>
    /\ df = <<>>
    /\ BucketIdle
    /\ FcrIdle
    /\ PlotIdle
    /\ LpIdle

\* one element of [power_converter_uniform(ac_power, ...) for ac_power in ...]
ConvUniform ==
    /\ pc = "setpoint"
    /\ uniform' = power_converter_uniform(power, power_max, units)
    /\ pc' = "uniform_done"
    /\ UNCHANGED <<power, power_max, units, cascade, tableVars, bucketVars, fcrVars, plotVars, lpVars>>

\* one element of [power_converter_cascade(ac_power, ...) for ac_power in ...]
ConvCascade ==
    /\ pc = "uniform_done"
    /\ cascade' = power_converter_cascade(power, power_max, units)
    /\ pc' = "cascade_done"
    /\ UNCHANGED <<power, power_max, units, uniform, tableVars, bucketVars, fcrVars, plotVars, lpVars>>

NextConv == ConvUniform \/ ConvCascade

SpecConv == InitConv /\ [][NextConv]_vars

\* the converter frames that have computed an efficiency
EffFrames ==
    {fr \in {uniform, cascade} : "eff" \in DOMAIN fr}

\* the setpoints the cascade claims are about: 0 < |power| <= power_max
InRange == RGt(RAbs(power), R(0)) /\ RLe(RAbs(power), power_max)

-----------------------------------------------------------------------------
\* C7: unit_efficiency with k0 = 0.02, k2 = 0.005 is defined for every
\* power_ratio >= 0 (positive denominator, no division by zero, also at 0),
\* is 0 at power_ratio = 0, and is always >= 0 and strictly below 1.
C7_EfficiencyDefinedAndBelowOne ==
    \A fr \in EffFrames :
        LET pr == fr.power_ratio
        IN  /\ RGe(pr, R(0))
            /\ RGt(RAdd(RAdd(pr, <<1, 50>>), RMul(<<1, 200>>, RMul(pr, pr))), R(0))
            /\ ~IsUndef(fr.eff)
            /\ pr = R(0) => fr.eff = R(0)
            /\ RGe(fr.eff, R(0))
            /\ RLt(fr.eff, R(1))

\* the uniform converter evaluating the efficiency at power_ratio = 0
C7_Witness ==
    /\ pc = "uniform_done"
    /\ power = R(0)
    /\ uniform.power_ratio = R(0)
    /\ uniform.eff = R(0)

\* C9: for 0 < |power| <= power_max the cascade uses the smallest number of
\* units k with k * (power_max / units) >= |power|; 1 <= k <= units, and the
\* per-unit loading |power| / (k * power_max / units) lies in (0, 1].
C9_MinimumActiveUnits ==
    (pc = "cascade_done" /\ InRange) =>
        LET k  == cascade.active_units
            up == RDiv(power_max, R(units))
        IN  /\ RGe(RMul(R(k), up), RAbs(power))
            /\ RLt(RMul(R(k - 1), up), RAbs(power))
            /\ 1 <= k /\ k <= units
            /\ cascade.power_ratio = RDiv(RAbs(power), RMul(R(k), up))
            /\ RGt(cascade.power_ratio, R(0))
            /\ RLe(cascade.power_ratio, R(1))

\* a setpoint between two multiples of the unit power, rounded up
C9_Witness ==
    /\ pc = "cascade_done"
    /\ InRange
    /\ cascade.active_units > 1
    /\ cascade.active_units < units
    /\ RLt(cascade.power_ratio, R(1))
    /\ RGt(cascade.power_ratio, <<1, 2>>)

\* C10: for 0 < |power| <= power_max the conversion loss of the cascade is
\* no larger than that of the uniform distribution, with equality when all
\* units are active.
C10_CascadeNoWorseThanUniform ==
    (pc = "cascade_done" /\ InRange) =>
        LET loss_c == RAbs(RSub(cascade.dc_power, power))
            loss_u == RAbs(RSub(uniform.dc_power, power))
        IN  /\ RLe(loss_c, loss_u)
            /\ cascade.active_units = units => loss_c = loss_u

\* a charging setpoint where the cascade loses strictly less
C10_Witness ==
    /\ pc = "cascade_done"
    /\ InRange
    /\ RLt(power, R(0))
    /\ cascade.active_units < units
    /\ RLt(RAbs(RSub(cascade.dc_power, power)), RAbs(RSub(uniform.dc_power, power)))

-----------------------------------------------------------------------------
(* plot_efficiency_curve: one curve per converter, power_max=1, units=8. *)

\* np.linspace(0, power_max, num): num samples, the first 0, the last power_max
Linspace(pmax, num) ==
    [j \in 1..num |-> RDiv(RMul(R(j - 1), pmax), R(num - 1))]

\* converter(power, power_max, units) for a converter given by its name
Convert(name, p, pmax, u) ==
    IF name = "power_converter_uniform"
    THEN power_converter_uniform(p, pmax, u).dc_power
    ELSE power_converter_cascade(p, pmax, u).dc_power

\* (variant: the last sample is replaced instead of the first)
ReplaceLastSample(dc) == [dc EXCEPT ![Len(dc)] = R(1)]

\* power_dc[0] = 1 # avoid division by zero
ReplaceFirstSample(dc) == [dc EXCEPT ![1] = R(1)]

\* power_range / power_dc, element by element
ArrayDiv(xs, ys) == [j \in 1..Len(xs) |-> RDiv(xs[j], ys[j])]

\* the calls of the notebook: the uniform converter alone, then both (and,
\* for completeness, the cascade alone)
ConverterLists ==
    { <<"power_converter_uniform">>,
      <<"power_converter_uniform", "power_converter_cascade">>,
      <<"power_converter_cascade">> }

InitPlot ==
    /\ pc = "plot"
    /\ converters \in ConverterLists
    /\ power_max \in RVals(1, MaxPowerMax)
    /\ units \in 1..MaxUnits
    /\ power = R(0)
    /\ uniform = <<>>
    /\ cascade = <<>>
    /\ power_range = <<>>
    /\ power_dc = <<>>
    /\ eff_curve = <<>>
    /\ df = <<>>
    /\ BucketIdle
    /\ FcrIdle
    /\ LpIdle

\* entry of plot_efficiency_curve: power_range = np.linspace(0, power_max, num)
PlotCall ==
    /\ pc = "plot"
    /\ power_range' = Linspace(power_max, NumSamples)
    /\ pc' = "for"
    /\ UNCHANGED <<converters, power_dc, eff_curve, power, power_max, units, uniform,
                   cascade, tableVars, bucketVars, fcrVars, lpVars>>

\* power_dc = np.array([converter(power, power_max, units) for power in power_range])
PlotEvaluate ==
    /\ pc = "for"
    /\ converters # <<>>
    /\ power_dc' = [j \in 1..Len(power_range) |->
                       Convert(Head(converters), power_range[j], power_max, units)]
    /\ pc' = "evaluated"
    /\ UNCHANGED <<converters, power_range, eff_curve, power, power_max, units, uniform,
                   cascade, tableVars, bucketVars, fcrVars, lpVars>>

\* power_dc[0] = 1 ; eff = power_range / power_dc ; on to the next converter
PlotDivide ==
    /\ pc = "evaluated"
    /\ power_dc' = ReplaceFirstSample(power_dc)
    /\ eff_curve' = ArrayDiv(power_range, power_dc')
    /\ converters' = Tail(converters)
    /\ pc' = "for"
    /\ UNCHANGED <<power_range, power, power_max, units, uniform, cascade,
                   tableVars, bucketVars, fcrVars, lpVars>>

NextPlot == PlotCall \/ PlotEvaluate \/ PlotDivide

SpecPlot == InitPlot /\ [][NextPlot]_vars

-----------------------------------------------------------------------------
\* C8: plot_efficiency_curve never divides by zero: the converter call at the
\* first sample (power = 0) completes without a division by zero and returns
\* 0 for both converters, that sample's DC power is then replaced by 1, and
\* every other sample (0 < power <= power_max) has a non-zero DC power.
C8_NoDivisionByZero ==
    /\ pc = "evaluated" =>
         /\ \A j \in 1..Len(power_dc) : ~IsUndef(power_dc[j])
         /\ power_range[1] = R(0) /\ power_dc[1] = R(0)
         /\ \A j \in 2..Len(power_dc) :
              /\ RGt(power_range[j], R(0)) /\ RLe(power_range[j], power_max)
              /\ power_dc[j] # R(0)
    /\ (pc = "for" /\ eff_curve # <<>>) =>
         /\ power_dc[1] = R(1)
         /\ \A j \in 1..Len(eff_curve) : ~IsUndef(eff_curve[j])

\* both curves computed: the first sample divided by the replaced value 1,
\* the last by a DC power above the AC power
C8_Witness ==
    /\ pc = "for"
    /\ converters = <<>>
    /\ Len(eff_curve) = NumSamples
    /\ power_dc[1] = R(1)
    /\ eff_curve[1] = R(0)
    /\ RGt(eff_curve[NumSamples], R(0))
    /\ RLt(eff_curve[NumSamples], R(1))

-----------------------------------------------------------------------------
(* build_model, solver.solve and recover_results (peak shaving).            *)
(* The model's variables are a record of sequences; the pyomo index t of    *)
(* model.time = 0..n-1 is position t + 1.  The LP solver is outside the     *)
(* repository: it is taken to leave any assignment of the variables that    *)
(* satisfies the bounds and constraints build_model declares.               *)

\* dt = 0.25 : 15 min timesteps
dt == <<1, 4>>

\* the variable, or the column, at index t
At(xs, t) == xs[t + 1]

\* storage_params: the notebook's dictionary, scaled down; soc_start may lie
\* below soc_bounds as it does in the notebook (0.0 and (0.1, 0.9))
StorageParams ==
    { [capacity |-> R(1), power |-> R(1), soc_bounds |-> sb, soc_start |-> ss,
       effc |-> e[1], effd |-> e[2]] :
        sb \in {<<R(0), R(1)>>, << <<1, 4>>, <<3, 4>> >>},
        ss \in {R(0), <<1, 2>>},
        e \in {<<R(1), R(1)>>, << <<1, 2>>, <<1, 2>> >>} }

\* opt.Var(model.time, bounds=(0.0, max_power)) for charge and discharge
PowerBounds(sp, m, t) ==
    /\ RLe(R(0), At(m.power_charge, t)) /\ RLe(At(m.power_charge, t), sp.power)
    /\ RLe(R(0), At(m.power_discharge, t)) /\ RLe(At(m.power_discharge, t), sp.power)

\* opt.Var(model.time, bounds=(soc_min * capacity, soc_max * capacity))
EnergyBounds(sp, m, t) ==
    /\ RLe(RMul(sp.soc_bounds[1], sp.capacity), At(m.energy_bess, t))
    /\ RLe(At(m.energy_bess, t), RMul(sp.soc_bounds[2], sp.capacity))

\* opt.Var(model.time, within=opt.NonNegativeReals)
GridBounds(m, t) == RLe(R(0), At(m.grid_power, t))

\* opt.Var(within=opt.NonNegativeReals)
PeakBounds(m) == RLe(R(0), m.peak_power)

\* dt * (effc * m.power_charge[t] - (1/effd) * m.power_discharge[t])
EnergyFlow(sp, m, t) ==
    RMul(dt, RSub(RMul(sp.effc, At(m.power_charge, t)),
                  RMul(RDiv(R(1), sp.effd), At(m.power_discharge, t))))

\* (variant: the discharge is multiplied by effd instead of divided)
energy_balance_rule_times_effd(sp, m, t) ==
    LET flow == RMul(dt, RSub(RMul(sp.effc, At(m.power_charge, t)),
                              RMul(sp.effd, At(m.power_discharge, t))))
    IN  IF t = 0
        THEN At(m.energy_bess, t) = RAdd(RMul(sp.soc_start, sp.capacity), flow)
        ELSE At(m.energy_bess, t) = RAdd(At(m.energy_bess, t - 1), flow)

\* SOC balance; the first time step starts from soc_start * capacity
energy_balance_rule(sp, m, t) ==
    IF t = 0
    THEN At(m.energy_bess, t) =
             RAdd(RMul(sp.soc_start, sp.capacity), EnergyFlow(sp, m, t))
    ELSE At(m.energy_bess, t) = RAdd(At(m.energy_bess, t - 1), EnergyFlow(sp, m, t))

\* SOC end condition, on m.time.last()
energy_end_rule(sp, m) ==
    RGe(At(m.energy_bess, Len(m.energy_bess) - 1), RMul(sp.soc_start, sp.capacity))

\* (variant: charge and discharge exchanged)
power_balance_rule_exchanged(m, load, t) ==
    RSub(RAdd(At(m.grid_power, t), At(m.power_charge, t)), At(m.power_discharge, t))
        = At(load, t)

\* m.grid_power[t] + m.power_discharge[t] - m.power_charge[t] == load_profile.load[t]
power_balance_rule(m, load, t) ==
    RSub(RAdd(At(m.grid_power, t), At(m.power_discharge, t)), At(m.power_charge, t))
        = At(load, t)

\* m.grid_power[t] <= m.peak_power
peak_power_rule(m, t) == RLe(At(m.grid_power, t), m.peak_power)

\* every bound and constraint of build_model, for a profile of Len(load) steps
Satisfies(sp, load, m) ==
    /\ PeakBounds(m)
    /\ \A t \in 0..(Len(load) - 1) :
         /\ PowerBounds(sp, m, t)
         /\ EnergyBounds(sp, m, t)
         /\ GridBounds(m, t)
         /\ energy_balance_rule(sp, m, t)
         /\ power_balance_rule(m, load, t)
         /\ peak_power_rule(m, t)
    /\ energy_end_rule(sp, m)

\* the values the solver's answer is drawn from; they reach beyond every bound
PowerCandidates == RVals(-1, 2)
EnergyCandidates == {Norm(k, 8) : k \in -2..10}
GridCandidates == RVals(-1, MaxLoad + 2)

\* the assignments of the time steps 0..t that extend m and satisfy what
\* build_model declares for time step t
WithPowers(sp, m, t) ==
    { m1 \in { [m EXCEPT !.power_charge = Append(@, c),
                         !.power_discharge = Append(@, d)] :
                 c \in PowerCandidates, d \in PowerCandidates } :
        PowerBounds(sp, m1, t) }

WithEnergy(sp, m1, t) ==
    { m2 \in { [m1 EXCEPT !.energy_bess = Append(@, e)] : e \in EnergyCandidates } :
        EnergyBounds(sp, m2, t) /\ energy_balance_rule(sp, m2, t) }

WithGrid(load, m2, t) ==
    { m3 \in { [m2 EXCEPT !.grid_power = Append(@, g)] : g \in GridCandidates } :
        GridBounds(m3, t) /\ power_balance_rule(m3, load, t) /\ peak_power_rule(m3, t) }

Extend(sp, load, m, t) ==
    UNION { UNION { WithGrid(load, m2, t) : m2 \in WithEnergy(sp, m1, t) } :
            m1 \in WithPowers(sp, m, t) }

RECURSIVE Assignments(_, _, _)
Assignments(sp, load, n) ==
    IF n = 0
    THEN { [power_charge |-> <<>>, power_discharge |-> <<>>, energy_bess |-> <<>>,
            grid_power |-> <<>>, peak_power |-> pk] : pk \in GridCandidates }
    ELSE UNION { Extend(sp, load, m, n - 1) : m \in Assignments(sp, load, n - 1) }

\* what solver.solve(model) may leave in the variables
Solutions(sp, load) ==
    { m \in Assignments(sp, load, Len(load)) : Satisfies(sp, load, m) }

\* storage parameters and a load profile of 1..MaxT time steps
InitLp ==
    /\ pc = "profile"
    /\ storage_params \in StorageParams
    /\ \E n \in 1..MaxT : \E load \in SeqsOf(RVals(0, MaxLoad), n) :
         profile = [load |-> load]
    /\ model = <<>>
    /\ df = <<>>
    /\ BucketIdle
    /\ FcrIdle
    /\ ConvIdle
    /\ PlotIdle

\* model = build_model(...) ; status = solver.solve(model)
BuildAndSolve ==
    /\ pc = "profile"
    /\ model' \in Solutions(storage_params, profile["load"])
    /\ pc' = "solved"
    /\ UNCHANGED <<storage_params, profile, tableVars, bucketVars, fcrVars, convVars,
                   plotVars>>

\* recover_results(model, profile): a copy of the profile with the columns
\* power, energy and grid
recover_results ==
    /\ pc = "solved"
    /\ df' = SetColumn(SetColumn(SetColumn(profile,
               "power", [r \in 1..Len(model.power_charge) |->
                            RSub(model.power_charge[r], model.power_discharge[r])]),
               "energy", model.energy_bess),
               "grid", model.grid_power)
    /\ pc' = "recovered"
    /\ UNCHANGED <<lpVars, bucketVars, fcrVars, convVars, plotVars>>

NextLp == BuildAndSolve \/ recover_results

SpecLp == InitLp /\ [][NextLp]_vars

\* the solver has left an assignment
Solved == pc \in {"solved", "recovered"}

\* the time steps of the model
Time == 0..(Len(profile["load"]) - 1)

\* C11 (as stated): every assignment that satisfies the constraints of
\* build_model has energy_bess[0] = capacity * soc_start
C11_InitialEnergyIsStartSoc ==
    Solved =>
        At(model.energy_bess, 0) =
            RMul(storage_params.capacity, storage_params.soc_start)

\* C12: in every assignment the solver may leave, at every time step
\* grid_power + power_discharge = load + power_charge, 0 <= grid_power <=
\* peak_power and 0 <= power_charge, power_discharge <= max_power; every row
\* of the table of recover_results has grid = load + power, with power the
\* charge minus the discharge, and no grid value exceeds peak_power
C12_PowerBalanceAndPeak ==
    /\ Solved =>
         \A t \in Time :
           /\ RAdd(At(model.grid_power, t), At(model.power_discharge, t)) =
                  RAdd(At(profile["load"], t), At(model.power_charge, t))
           /\ RLe(R(0), At(model.grid_power, t))
           /\ RLe(At(model.grid_power, t), model.peak_power)
           /\ RLe(R(0), At(model.power_charge, t))
           /\ RLe(At(model.power_charge, t), storage_params.power)
           /\ RLe(R(0), At(model.power_discharge, t))
           /\ RLe(At(model.power_discharge, t), storage_params.power)
    /\ pc = "recovered" =>
         \A r \in 1..NRows(df, "grid") :
           /\ df["power"][r] = RSub(model.power_charge[r], model.power_discharge[r])
           /\ df["grid"][r] = RAdd(df["load"][r], df["power"][r])
           /\ RLe(df["grid"][r], model.peak_power)

\* C12 witness: a recovered table of two rows, one where the storage
\* discharges and the grid delivers less than the load, one where it charges
C12_Witness ==
    /\ pc = "recovered"
    /\ NRows(df, "grid") = 2
    /\ \E r \in 1..NRows(df, "grid") :
         RGt(model.power_discharge[r], R(0)) /\ RLt(df["grid"][r], df["load"][r])
    /\ \E r \in 1..NRows(df, "grid") :
         RGt(model.power_charge[r], R(0)) /\ RGt(df["grid"][r], df["load"][r])

\* C13: in every assignment the solver may leave, soc_min * capacity <=
\* energy_bess[t] <= soc_max * capacity at every time step, for t > 0
\* energy_bess[t] = energy_bess[t-1] + dt * (effc * power_charge[t] -
\* power_discharge[t] / effd) with dt = 1/4, and the energy at the last time
\* step is at least soc_start * capacity
C13_EnergyBalanceAndBounds ==
    Solved =>
      /\ \A t \in Time :
           /\ RLe(RMul(storage_params.soc_bounds[1], storage_params.capacity),
                  At(model.energy_bess, t))
           /\ RLe(At(model.energy_bess, t),
                  RMul(storage_params.soc_bounds[2], storage_params.capacity))
           /\ t > 0 =>
                At(model.energy_bess, t) =
                    RAdd(At(model.energy_bess, t - 1),
                         RMul(<<1, 4>>,
                              RSub(RMul(storage_params.effc, At(model.power_charge, t)),
                                   RDiv(At(model.power_discharge, t),
                                        storage_params.effd))))
      /\ RGe(At(model.energy_bess, Len(model.energy_bess) - 1),
             RMul(storage_params.soc_start, storage_params.capacity))

\* C13 witness: an assignment of two time steps whose storage discharges at
\* the second, so that its energy falls
C13_Witness ==
    /\ Solved
    /\ Len(model.energy_bess) = 2
    /\ RGt(At(model.power_discharge, 1), R(0))
    /\ RLt(At(model.energy_bess, 1), At(model.energy_bess, 0))

-----------------------------------------------------------------------------
(* calc_cycle_depth.  numpy arrays are sequences; the numpy index k is      *)
(* position k + 1.  Indices are kept as integers, values as rationals.      *)

\* np.diff
diff(a) == [j \in 1..(Len(a) - 1) |-> RSub(a[j + 1], a[j])]

\* np.sign of an array
sign(a) == [j \in 1..Len(a) |-> Sign(a[j])]

\* np.nonzero(a)[0] : the indices of the non-zero elements, ascending
nonzero(a) == SelectSeq([j \in 1..Len(a) |-> j - 1], LAMBDA k : At(a, k) # R(0))

\* np.sum(a[lo:hi])
RECURSIVE SliceSum(_, _, _)
SliceSum(a, lo, hi) ==
    IF lo >= hi \/ lo >= Len(a) THEN R(0)
    ELSE RAdd(At(a, lo), SliceSum(a, lo + 1, hi))

\* a missing value of a column
NaN == "NaN"

\* df.fillna(0.0, inplace=True)
fillna(t) == [c \in Columns(t) |-> [r \in 1..Len(t[c]) |-> IF t[c][r] = NaN THEN R(0) ELSE t[c][r]]]

\* the table calc_cycle_depth leaves in df
CycleDepthTable(t) ==
    LET soc == t["soc"]
        soc_diff == diff(soc)
        n == Len(soc_diff)
        soc_sign_diff == <<R(0)>> \o diff(sign(soc_diff))
        nonzeros == nonzero(soc_sign_diff)
        start == <<0>> \o nonzeros
        stop == nonzeros \o <<n>>
        x == Len(start)
        soc_change == [k \in 1..x |-> SliceSum(soc_diff, start[k], stop[k])]
        kept == {k \in 1..x : RGt(soc_change[k], R(0))}
        \* df.loc[idx, "doc"] = soc_change, idx = df.index[start]
        doc == [r \in 1..Len(soc) |->
                  IF \E k \in kept : start[k] = r - 1
                  THEN soc_change[CHOOSE k \in kept : start[k] = r - 1]
                  ELSE NaN]
    IN  fillna(SetColumn(t, "doc", doc))

\* a table with a soc column of 2..MaxSocLen rows
InitCycle ==
    /\ pc = "soc"
    /\ \E n \in 2..MaxSocLen :
         \E soc \in SeqsOf({Norm(k, SocSteps) : k \in 0..SocSteps}, n) :
           df = [soc |-> soc]
    /\ BucketIdle
    /\ FcrIdle
    /\ ConvIdle
    /\ PlotIdle
    /\ LpIdle

calc_cycle_depth ==
    /\ pc = "soc"
    /\ df' = CycleDepthTable(df)
    /\ pc' = "doc"
    /\ UNCHANGED <<bucketVars, fcrVars, convVars, plotVars, lpVars>>

NextCycle == calc_cycle_depth

SpecCycle == InitCycle /\ [][NextCycle]_vars

\* C14 (as stated): a cycle depth is recorded only once its charging
\* half-cycle is complete: a non-zero doc stands at a time step at or after
\* the last SOC increase of a rise of the SOC of that depth, and is 0.0 at
\* every time step before
C14_DocOnlyAfterCycleComplete ==
    pc = "doc" =>
        \A r \in 1..Len(df["doc"]) :
            df["doc"][r] # R(0) =>
                \E a \in 1..r : \E b \in a..r :
                    /\ \A j \in a..(b - 1) : RGt(df["soc"][j + 1], df["soc"][j])
                    /\ RSub(df["soc"][b], df["soc"][a]) = df["doc"][r]

=============================================================================
